---- MODULE Spec2Model ----
(***************************************************************************)
(* Message-understanding pipeline of the life-coach chat service           *)
(* (routes/chat.js and LLM/aiService.js).                                  *)
(*                                                                         *)
(* A text is a sequence of tokens.  A token is a word, a word with an      *)
(* attached colon ("Goals:"), a punctuation mark or the newline.  Between  *)
(* two adjacent tokens there is exactly one blank, except that a           *)
(* punctuation mark is attached to the token before it and a newline has   *)
(* no blank on either side.  The regular expressions of the source are     *)
(* modelled by what they match on such token sequences.                    *)
(***************************************************************************)
EXTENDS Integers, Sequences, FiniteSets, TLC

NL == "\n"
LongWord == "Wolfeschlegelsteinhausenbergerdorffwelchevoraltern"
Sentinel == "[Pending explicit response]"

Punct == {".", ",", ";", "?"}

\* words made of letters only, at least two letters long
AlphaWords ==
  {"My", "name", "is", "Alex", "Sarah", "am", "want", "to", "prefer", "firm",
   "supportive", "and", "energizing", "run", "fit", "Get", "FIT", "Hello",
   "hello", "how", "are", "you", "today", "fine", LongWord,
   "fitness", "Fitness", "GET", "Learn", "learn", "machine", "deep", "learning",
   "Python", "improve", "focus"}

\* String.length of one token
TokLen(t) ==
  CASE t \in Punct \cup {NL, "I"} -> 1
    [] t \in {"My", "is", "am", "to"} -> 2
    [] t \in {"I'm", "and", "run", "fit", "Get", "GET", "FIT", "how", "are", "you"} -> 3
    [] t \in {"name", "Alex", "want", "firm", "fine", "deep"} -> 4
    [] t \in {"Sarah", "Hello", "hello", "today", "Tone:", "Learn", "learn", "focus"} -> 5
    [] t \in {"prefer", "Goals:", "Python"} -> 6
    [] t \in {"fitness", "Fitness", "machine", "improve"} -> 7
    [] t = "learning" -> 8
    [] t \in {"supportive", "energizing"} -> 10
    [] t = LongWord -> 50
    [] OTHER -> 1

\* String.prototype.toLowerCase on one token
Lower(t) ==
  CASE t = "My" -> "my"
    [] t = "Alex" -> "alex"
    [] t = "Sarah" -> "sarah"
    [] t = "I" -> "i"
    [] t = "I'm" -> "i'm"
    [] t = "Goals:" -> "goals:"
    [] t = "Tone:" -> "tone:"
    [] t \in {"Get", "GET"} -> "get"
    [] t = "Fitness" -> "fitness"
    [] t = "Learn" -> "learn"
    [] t = "Python" -> "python"
    [] t = "Saturday" -> "saturday"
    [] t = "FIT" -> "fit"
    [] t = "Hello" -> "hello"
    [] t = LongWord -> "wolfeschlegelsteinhausenbergerdorffwelchevoraltern"
    [] OTHER -> t

LowerSeq(s) == [i \in 1..Len(s) |-> Lower(s[i])]

\* number of blanks the text has between token a and the token b after it
Gap(a, b) == IF a = NL \/ b = NL \/ b \in Punct THEN 0 ELSE 1

RECURSIVE RawLen(_)
\* String.length of a token sequence as written
RawLen(s) ==
  IF s = <<>> THEN 0
  ELSE IF Len(s) = 1 THEN TokLen(s[1])
  ELSE TokLen(s[1]) + Gap(s[1], s[2]) + RawLen(Tail(s))

RECURSIVE TrimLeft(_)
TrimLeft(s) == IF s # <<>> /\ s[1] = NL THEN TrimLeft(Tail(s)) ELSE s

RECURSIVE TrimRight(_)
TrimRight(s) ==
  IF s # <<>> /\ s[Len(s)] = NL THEN TrimRight(SubSeq(s, 1, Len(s) - 1)) ELSE s

\* String.prototype.trim: leading and trailing white space removed
Trim(s) == TrimRight(TrimLeft(s))

\* text.trim().length
TrimLen(s) == RawLen(Trim(s))

\* the phrase p (a sequence of lowercase tokens) occurs in s at position i
OccursAt(s, p, i) ==
  /\ i + Len(p) - 1 <= Len(s)
  /\ \A k \in 1..Len(p) : Lower(s[i + k - 1]) = p[k]

Contains(s, p) == \E i \in 1..Len(s) : OccursAt(s, p, i)

HasTok(s, set) == \E i \in 1..Len(s) : Lower(s[i]) \in set

(***************************************************************************)
(* parseOnboardingReply: name                                              *)
(***************************************************************************)
RECURSIVE SkipNL(_, _)
\* \s+ / \s* over newlines: the first position at or after i that is no newline
SkipNL(s, i) == IF i <= Len(s) /\ s[i] = NL THEN SkipNL(s, i + 1) ELSE i

\* what [A-Z][a-z]+ (flag i) matches at the start of a token: its leading
\* run of letters when that has at least two letters, "" when it has not
NameHead(t) ==
  IF t \in AlphaWords THEN t
  ELSE IF t = "Goals:" THEN "Goals"
  ELSE IF t = "Tone:" THEN "Tone"
  ELSE ""

HeadLen(t) == IF t \in AlphaWords THEN TokLen(t) ELSE TokLen(t) - 1

\* \s+([A-Z][a-z]+) can match with the word starting at token i
WordAt(s, i) ==
  LET j == SkipNL(s, i)
  IN  /\ j <= Len(s)
      /\ s[j] \notin Punct
      /\ NameHead(s[j]) # ""

\* the capture ([A-Z][a-z]+(?:\s+[A-Z][a-z]+)?) after a marker that ends at
\* token i-1: <<>> when the pattern does not match there, else its one or
\* two words
CaptureName(s, i) ==
  IF ~WordAt(s, i) THEN <<>>
  ELSE LET j == SkipNL(s, i)
       IN  IF s[j] \in AlphaWords /\ WordAt(s, j + 1)
           THEN <<NameHead(s[j]), NameHead(s[SkipNL(s, j + 1)])>>
           ELSE <<NameHead(s[j])>>

\* String.length of the captured name
CaptureLen(s, i) ==
  IF ~WordAt(s, i) THEN 0
  ELSE LET j == SkipNL(s, i)
       IN  IF s[j] \in AlphaWords /\ WordAt(s, j + 1)
           THEN LET k == SkipNL(s, j + 1)
                IN  TokLen(s[j]) + (IF k = j + 1 THEN 1 ELSE k - j - 1) + HeadLen(s[k])
           ELSE HeadLen(s[j])

MyNameIs == <<"my", "name", "is">>

\* positions where /my name is\s+([A-Z][a-z]+...)/i matches
NameMatches(s) ==
  {i \in 1..Len(s) : OccursAt(s, MyNameIs, i) /\ WordAt(s, i + 3)}

Min(S) == CHOOSE x \in S : \A y \in S : x <= y

\* /goals?:|tone:|i want to|i'd like to|prefer/i.test(text)
HasGoalOrToneMarker(s) ==
  \/ HasTok(s, {"goals:", "goal:", "tone:", "prefer"})
  \/ Contains(s, <<"i", "want", "to">>)

\* token after the leading "I am" / "I'm" of the text, 0 when the text does
\* not begin with either
IAmEnd(s) ==
  IF Len(s) >= 1 /\ Lower(s[1]) = "i'm" THEN 2
  ELSE IF Len(s) >= 2 /\ Lower(s[1]) = "i" /\ Lower(s[2]) = "am" THEN 3
  ELSE 0

\* extractedName and its length after both priorities
ExtractName(s) ==
  IF NameMatches(s) # {}
  THEN LET i == Min(NameMatches(s))
       IN  [name |-> CaptureName(s, i + 3), len |-> CaptureLen(s, i + 3)]
  ELSE IF IAmEnd(s) # 0 /\ WordAt(s, IAmEnd(s)) /\ HasGoalOrToneMarker(s)
  THEN [name |-> CaptureName(s, IAmEnd(s)), len |-> CaptureLen(s, IAmEnd(s))]
  ELSE [name |-> <<>>, len |-> 0]

NameWarning == "Could not extract name/summary explicitly - falling back to user contact"

\* result.summary and the warning of the name step
SummaryOf(s) ==
  LET e == ExtractName(s)
  IN  IF e.name # <<>> /\ e.len > 1 /\ e.len < 50
      THEN [summary |-> e.name, warnings |-> <<>>]
      ELSE IF e.name = <<>>
      THEN [summary |-> <<Sentinel>>, warnings |-> <<NameWarning>>]
      ELSE [summary |-> <<>>, warnings |-> <<>>]

(***************************************************************************)
(* parseOnboardingReply: goals                                             *)
(***************************************************************************)
NoNL(s, a, b) == \A k \in a..b : s[k] # NL

\* where the lazy group [^\n]*? that starts at token b stops: the first
\* "tone:" / "preference:" at or after b, or the end of the text
RECURSIVE FieldEnd(_, _)
FieldEnd(s, b) ==
  IF b > Len(s) \/ Lower(s[b]) \in {"tone:", "preference:"} THEN b
  ELSE FieldEnd(s, b + 1)

\* /goals?:\s*([^\n]*?)(?=tone:|preference:|$)/i matches with "goals:" at i
GoalsMatchAt(s, i) ==
  /\ i <= Len(s)
  /\ Lower(s[i]) \in {"goals:", "goal:"}
  /\ LET b == SkipNL(s, i + 1) IN NoNL(s, b, FieldEnd(s, b) - 1)

\* goalsMatch[1], <<>> when there is no match or the group is empty
GoalsText(s) ==
  LET starts == {i \in 1..Len(s) : GoalsMatchAt(s, i)}
  IN  IF starts = {} THEN <<>>
      ELSE LET b == SkipNL(s, Min(starts) + 1)
           IN  SubSeq(s, b, FieldEnd(s, b) - 1)

\* a separator set that also splits on the word "and"
GoalSeparators_WithAnd == {";", ",", "and"}

GoalSeparators == {";", ","}

\* goalsText.split(/;\s*|,\s*|(?:\n\s*-\s*)/): the pieces between separators
RECURSIVE SplitGoals(_, _)
SplitGoals(s, cur) ==
  IF s = <<>> THEN <<cur>>
  ELSE IF s[1] \in GoalSeparators THEN <<cur>> \o SplitGoals(Tail(s), <<>>)
  ELSE SplitGoals(Tail(s), Append(cur, s[1]))

\* g.replace(/^(?:and|or)\s+/i, '').trim()
StripLead(g) ==
  IF Len(g) >= 2 /\ Lower(g[1]) \in {"and", "or"} /\ g[2] \notin Punct
  THEN Tail(g) ELSE g

\* g.length > 2 && g.length < 100
ValidGoal(g) == RawLen(g) > 2 /\ RawLen(g) < 100

RECURSIVE FilterGoals(_)
FilterGoals(gs) ==
  IF gs = <<>> THEN <<>>
  ELSE LET g == StripLead(gs[1])
       IN  (IF ValidGoal(g) THEN <<g>> ELSE <<>>) \o FilterGoals(Tail(gs))

\* priority 1: the explicit "Goals:" field
FieldGoals(s) ==
  IF GoalsText(s) = <<>> THEN <<>> ELSE FilterGoals(SplitGoals(GoalsText(s), <<>>))

\* text.split(/[\.\n]/).map(l => l.trim()).filter(Boolean)
RECURSIVE SplitLines(_, _)
SplitLines(s, cur) ==
  IF s = <<>> THEN (IF cur = <<>> THEN <<>> ELSE <<cur>>)
  ELSE IF s[1] \in {".", NL}
       THEN (IF cur = <<>> THEN <<>> ELSE <<cur>>) \o SplitLines(Tail(s), <<>>)
  ELSE SplitLines(Tail(s), Append(cur, s[1]))

IWantTo == <<"i", "want", "to">>

\* line.replace(/^.*?(?:i want to|...)\s+/i, '').trim(): the rest of the
\* line after the first marker that is followed by white space, the whole
\* line when no marker is
GoalPart(line) ==
  LET ps == {i \in 1..Len(line) : /\ OccursAt(line, IWantTo, i)
                                   /\ i + 3 <= Len(line)
                                   /\ line[i + 3] \notin Punct}
  IN  IF ps = {} THEN line ELSE SubSeq(line, Min(ps) + 3, Len(line))

RECURSIVE IntentGoals(_)
\* priority 2: the sentences with an intent marker
IntentGoals(lines) ==
  IF lines = <<>> THEN <<>>
  ELSE (IF Contains(lines[1], IWantTo) /\ ValidGoal(GoalPart(lines[1]))
        THEN <<GoalPart(lines[1])>> ELSE <<>>) \o IntentGoals(Tail(lines))

MaxGoals == 10

\* extractedGoals before truncation and deduplication
CandidateGoals(s) ==
  IF FieldGoals(s) # <<>> THEN FieldGoals(s) ELSE IntentGoals(SplitLines(s, <<>>))

RECURSIVE UniqueGoals(_, _)
\* the case-insensitive duplicate removal, first occurrence kept
UniqueGoals(gs, seen) ==
  IF gs = <<>> THEN <<>>
  ELSE IF LowerSeq(gs[1]) \in seen THEN UniqueGoals(Tail(gs), seen)
  ELSE <<gs[1]>> \o UniqueGoals(Tail(gs), seen \cup {LowerSeq(gs[1])})

TooManyWarning == "Extracted goals - may be too many, truncating to 10"

\* result.goals and the warnings of the goal step
GoalsOf(s) ==
  LET c == CandidateGoals(s)
  IN  [goals |-> UniqueGoals(IF Len(c) > MaxGoals THEN SubSeq(c, 1, MaxGoals) ELSE c, {}),
       warnings |-> IF c = <<>> THEN <<"No goals detected - user may not have provided them">>
                    ELSE IF Len(c) > MaxGoals THEN <<TooManyWarning>> ELSE <<>>]

(***************************************************************************)
(* parseOnboardingReply: tone                                              *)
(***************************************************************************)
\* tokens made of the characters [a-zA-Z] only
Plain(t) == t \in AlphaWords \cup {"I"}


\* where the group ([a-zA-Z\- ]+?) that starts at token b stops: the first
\* token at or after b that is not made of letters, or the end of the text
RECURSIVE PlainEnd(_, _)
PlainEnd(s, b) == IF b <= Len(s) /\ Plain(s[b]) THEN PlainEnd(s, b + 1) ELSE b

\* /tone:\s*([a-zA-Z\- ]+?)(?:[,\.\n]|$)/i matches with "tone:" at i
ToneMatchAt(s, i) ==
  /\ i <= Len(s)
  /\ Lower(s[i]) = "tone:"
  /\ LET b == SkipNL(s, i + 1)
         e == PlainEnd(s, b)
     IN  e > b /\ (e > Len(s) \/ s[e] \in {",", ".", NL})

\* toneMatch[1].trim().toLowerCase(), <<>> when there is no match
FieldTone(s) ==
  LET starts == {i \in 1..Len(s) : ToneMatchAt(s, i)}
  IN  IF starts = {} THEN <<>>
      ELSE LET b == SkipNL(s, Min(starts) + 1)
           IN  LowerSeq(SubSeq(s, b, PlainEnd(s, b) - 1))

\* toneKeywords in the order of the source; the tokens of the alphabet that
\* contain one of them
ToneKeywords ==
  <<"encouraging", "supportive", "energizing", "energetic", "firm", "strict",
    "gentle", "motivating", "motivational", "uplifting", "positive",
    "realistic", "direct", "compassionate">>


\* [^.]*? before the word run: punctuation other than the full stop, and
\* newlines, are passed over
RECURSIVE SkipJunk(_, _)
SkipJunk(s, j) ==
  IF j <= Len(s) /\ s[j] \in ((Punct \ {"."}) \cup {NL}) THEN SkipJunk(s, j + 1) ELSE j

\* ([\w\- ]+): the run of words that starts at token j goes on while the
\* tokens are whole words separated by single blanks
RECURSIVE RunEnd(_, _)
RunEnd(s, j) ==
  IF j < Len(s) /\ Plain(s[j]) /\ s[j + 1] \notin Punct \cup {NL}
  THEN RunEnd(s, j + 1) ELSE j

\* /(?:tone|prefer|motivat)[^.]*?\b([\w\- ]+)\b/i matches from token i
ContextMatchAt(s, i) ==
  /\ i <= Len(s)
  /\ Lower(s[i]) \in {"tone:", "prefer"}  \* /(?:tone|prefer|motivat)/i
  /\ LET j == SkipJunk(s, i + 1) IN j <= Len(s) /\ s[j] # "."

\* contextMatch[0] as tokens, <<>> when the pattern does not match
ContextWindow(s) ==
  LET starts == {i \in 1..Len(s) : ContextMatchAt(s, i)}
  IN  IF starts = {} THEN <<>>
      ELSE LET i == Min(starts)
           IN  SubSeq(s, i, RunEnd(s, SkipJunk(s, i + 1)))

\* the first keyword of toneKeywords that the window includes
KeywordTone(s) ==
  LET w == ContextWindow(s)
      hits == {k \in 1..Len(ToneKeywords) : HasTok(w, {ToneKeywords[k]})}
  IN  IF hits = {} THEN <<>> ELSE <<ToneKeywords[Min(hits)]>>


\* extractedTone after both priorities, and the warning of the tone step
ToneOf(s) ==
  LET t == IF FieldTone(s) # <<>> THEN FieldTone(s) ELSE KeywordTone(s)
  IN  [tone |-> t, warnings |-> IF t = <<>> THEN <<"No tone/motivation preference detected">> ELSE <<>>]

(***************************************************************************)
(* parseOnboardingReply: confidence and result                             *)
(***************************************************************************)
MinParseLen == 20

\* a scoring that takes any two fields for medium
Confidence_AnyTwo(hasName, hasGoals, hasTone) ==
  IF hasName /\ hasGoals /\ hasTone THEN "high"
  ELSE IF (hasName /\ hasGoals) \/ (hasGoals /\ hasTone) \/ (hasName /\ hasTone) THEN "medium"
  ELSE "low"

\* the confidence scoring at the end of parseOnboardingReply
Confidence(hasName, hasGoals, hasTone) ==
  IF hasName /\ hasGoals /\ hasTone THEN "high"
  ELSE IF (hasName /\ hasGoals) \/ (hasGoals /\ hasTone) THEN "medium"
  ELSE "low"

parseOnboardingReply(text) ==
  IF TrimLen(text) < MinParseLen
  THEN [summary |-> <<>>, goals |-> <<>>, tone |-> <<>>, confidence |-> "low",
        warnings |-> <<"Text too short to parse reliably">>]
  ELSE LET n == SummaryOf(text)
           g == GoalsOf(text)
           t == ToneOf(text)
       IN  [summary |-> n.summary, goals |-> g.goals, tone |-> t.tone,
            confidence |-> Confidence(n.summary # <<>> /\ n.summary # <<Sentinel>>,
                                      g.goals # <<>>, t.tone # <<>>),
            warnings |-> n.warnings \o g.warnings \o t.warnings]

(***************************************************************************)
(* Input texts: concatenations of at most MaxPhrases phrases               *)
(***************************************************************************)
MaxPhrases == 3

Phrases ==
  { <<"My", "name", "is", "Alex", ".">>,
    <<"My", "name", "is", LongWord, ".">>,
    <<"I'm", "Sarah", ",">>,
    <<"I'm", "fine">>,
    <<"Goals:", "Get", "fit", ",", "run", ".">>,
    <<"Tone:", "firm">>,
    <<NL>>,
    <<"I", "want", "to", "run", ".">>,
    <<"I", "prefer", "firm", ".">>,
    <<"supportive", "and", "energizing">>,
    <<"how", "are", "you", "today", "?">> }

RECURSIVE TextsOf(_)
\* the texts made of at most n phrases
TextsOf(n) ==
  IF n = 0 THEN {<<>>}
  ELSE LET shorter == TextsOf(n - 1)
       IN  shorter \cup {t \o p : t \in shorter, p \in Phrases}

\* the example replies of ONBOARDING_FLOW.md
DedupExample == <<"Goals:", "fitness", ",", "Fitness", ",", "GET", "FIT">>
AndExample == <<"Goals:", "Learn", "machine", "and", "deep", "learning">>
ScenarioExample ==
  <<"My", "name", "is", "Alex", ".", "Goals:", "Get", "fit", ",", "learn", "Python", ",",
    "improve", "focus", ".", "Tone:", "supportive", "and", "energizing">>

\* replies with eleven and twelve goals, "fit" and "FIT" among them
ElevenGoals ==
  <<"Goals:", "run", ",", "fit", ",", "FIT", ",", "focus", ",", "how", ",", "are", ",",
    "you", ",", "today", ",", "fine", ",", "want", ",", "name">>

Texts ==
  TextsOf(MaxPhrases) \cup
  {DedupExample, AndExample, ScenarioExample, ElevenGoals,
   ElevenGoals \o <<",", "learn">>}

(***************************************************************************)
(* State                                                                   *)
(***************************************************************************)
VARIABLES
  text,        \* parser input under study
  result,      \* parseOnboardingReply(text), NoResult before it ran
  prev,        \* result for the text before the last addition
  adds,        \* number of additions made to text
  profile,     \* ProfileStore: user -> stored AI memory or NoProfile
  turns,       \* ConversationStore: user -> number of stored messages
  cache,       \* responseCache: cache key -> [response, timestamp]
  now,         \* Date.now() in hours
  tokenUsage,  \* the process-wide token counters
  llmCalls,    \* number of model.invoke calls made so far
  last,        \* what POST /api/chat did, when it was the last request served
  facts,       \* FactsOf tabulated for the message bodies; never changes
  recent,      \* recentMessages read by the suggestion endpoint
  weekday,     \* new Date().getDay(), 0 for Sunday
  llmReply,    \* what llm.invoke did for the suggestion prompt
  suggestion,  \* value returned by generateAISuggestion
  sugStatus,   \* status of the suggestion response, 0 before the request
  lookup,      \* the last call of getCachedResponse and what it returned
  tasks,       \* chat turns in progress: turn -> position and local values
  timeResult   \* parseNaturalLanguageTime(text), NoTime before it ran

vars == <<text, result, prev, adds, profile, turns, cache, now, tokenUsage, llmCalls, last, facts,
         recent, weekday, llmReply, suggestion, sugStatus, lookup, tasks,
         timeResult>>
parseVars == <<text, result, prev, adds>>
chatVars == <<profile, turns, cache, now, tokenUsage, llmCalls, last>>
sugVars == <<recent, weekday, llmReply, suggestion, sugStatus>>
auxVars == <<lookup, tasks, timeResult>>

NoResult == [confidence |-> "none"]
NoProfile == [absent |-> TRUE]
NoTurn == [status |-> 0]
NoLookup == [op |-> "none"]
NoTime == [time |-> "none"]
Users == {"u1"}

(***************************************************************************)
(* aiService.js: response cache and token counters                         *)
(***************************************************************************)
CACHE_DURATION == 24
HashWords == 10

RECURSIVE WordsOf(_, _)
\* message.toLowerCase().trim().split(/\s+/): a punctuation mark belongs to
\* the word before it
WordsOf(s, cur) ==
  IF s = <<>> THEN (IF cur = <<>> THEN <<>> ELSE <<cur>>)
  ELSE IF s[1] = NL THEN (IF cur = <<>> THEN <<>> ELSE <<cur>>) \o WordsOf(Tail(s), <<>>)
  ELSE IF s[1] \in Punct \/ cur = <<>> THEN WordsOf(Tail(s), Append(cur, Lower(s[1])))
  ELSE <<cur>> \o WordsOf(Tail(s), <<Lower(s[1])>>)

\* a string is the sequence of its pieces, every ":" a piece of its own
Pieces(t) ==
  CASE t = "goals:" -> <<"goals", ":">>
    [] t = "tone:" -> <<"tone", ":">>
    [] OTHER -> <<t>>

RECURSIVE WordPieces(_)
WordPieces(w) == IF w = <<>> THEN <<>> ELSE Pieces(w[1]) \o WordPieces(Tail(w))

RECURSIVE JoinColon(_)
\* words.join(':')
JoinColon(w) ==
  IF w = <<>> THEN <<>>
  ELSE IF Len(w) = 1 THEN WordPieces(w[1])
  ELSE WordPieces(w[1]) \o <<":">> \o JoinColon(Tail(w))

hashMessage(message) ==
  LET w == WordsOf(message, <<>>)
  IN  JoinColon(IF Len(w) > HashWords THEN SubSeq(w, 1, HashWords) ELSE w)

\* `${userId}:${hashMessage(message)}`, userId given by its pieces
CacheKey(userId, message) == userId \o <<":">> \o hashMessage(message)

\* an optional value: null or undefined, or the value v
Absent == [absent |-> TRUE]
Given(v) == [value |-> v]

\* the entry is present and younger than CACHE_DURATION
\* a freshness test that still accepts an entry of age CACHE_DURATION
CacheFresh_Inclusive(c, key, t) ==
  key \in DOMAIN c /\ t - c[key].timestamp <= CACHE_DURATION

CacheFresh(c, key, t) == key \in DOMAIN c /\ t - c[key].timestamp < CACHE_DURATION

\* value returned by getCachedResponse, Absent standing for null
getCachedResponse(c, key, t) ==
  IF CacheFresh(c, key, t) THEN Given(c[key].response) ELSE Absent

\* responseCache after getCachedResponse: an expired entry is deleted
CacheAfterGet(c, key, t) ==
  IF key \in DOMAIN c /\ ~CacheFresh(c, key, t)
  THEN [k \in DOMAIN c \ {key} |-> c[k]] ELSE c

\* a store that keeps the timestamp of the entry it replaces
setCachedResponse_KeepTimestamp(c, key, response, t) ==
  [k \in DOMAIN c \cup {key} |->
     IF k = key
     THEN [response |-> response,
           timestamp |-> IF key \in DOMAIN c THEN c[key].timestamp ELSE t]
     ELSE c[k]]

setCachedResponse(c, key, response, t) ==
  [k \in DOMAIN c \cup {key} |->
     IF k = key THEN [response |-> response, timestamp |-> t] ELSE c[k]]

\* responseCache after clearExpiredCache
clearExpiredCache(c, t) ==
  [k \in {x \in DOMAIN c : ~(t - c[x].timestamp > CACHE_DURATION)} |-> c[k]]

\* counters that are assigned instead of added to
trackTokenUsage_Assign(tu, inputTokens, outputTokens) ==
  [totalInputTokens |-> inputTokens, totalOutputTokens |-> outputTokens]

trackTokenUsage(tu, inputTokens, outputTokens) ==
  [totalInputTokens |-> tu.totalInputTokens + inputTokens,
   totalOutputTokens |-> tu.totalOutputTokens + outputTokens]

(***************************************************************************)
(* routes/chat.js: the intake gate                                         *)
(***************************************************************************)
HistoryLimit == 10

\* conversationHistory.length: getConversationHistory(userId) returns the
\* latest HistoryLimit of the n stored messages
getConversationHistory(n) == IF n > HistoryLimit THEN HistoryLimit ELSE n

\* getUserContext(userId) is a non-empty string
HasContext(p) ==
  p # NoProfile /\ (p.summary # <<>> \/ p.goals # <<>> \/ p.tone # <<>>)

\* the gate of tryHandleOnboardingReply
GateHasName(s) == Contains(s, MyNameIs) \/ Contains(s, <<"i", "am">>) \/ HasTok(s, {"i'm"})
GateHasGoals(s) == HasTok(s, {"goals:", "goal:"}) \/ Contains(s, IWantTo)
GateHasTone(s) == HasTok(s, {"tone:", "supportive", "energizing", "firm", "prefer"})
GateCheck(s) == GateHasName(s) \/ GateHasGoals(s) \/ GateHasTone(s)

\* hasOnboardingKeywords of generateChatResponse
HasOnboardingKeywords(s) ==
  \/ Contains(s, MyNameIs) \/ Contains(s, <<"i", "am">>) \/ HasTok(s, {"i'm"})
  \/ HasTok(s, {"goals:", "goal:"}) \/ Contains(s, IWantTo)
  \/ HasTok(s, {"tone:", "prefer"})

\* message bodies sent to POST /api/chat; <<>> is the empty message the
\* mobile client sends to fetch the onboarding prompt
ChatMessages ==
  {<<>>,
   <<"Hello">>,
   <<"I'm", "fine">>,
   <<"My", "name", "is", "Alex", ".", "Goals:", "Get", "fit", ",", "run", ".", "Tone:", "firm">>,
   <<"Goals:", "Get", "fit", ",", "run", ".", "Tone:", "firm">>,
   <<"supportive", "and", "energizing">>,
   <<"My", "name", "is", "Alex", ".", "how", "are", "you", "today", "?">>}

\* the functions of the message text that a chat turn evaluates
FactsOf(m) ==
  [trimLen |-> TrimLen(m),
   gate |-> GateCheck(m),
   keywords |-> HasOnboardingKeywords(m),
   parsed |-> parseOnboardingReply(m),
   hash |-> hashMessage(m)]

\* memoryPayload built from a parse result: only the extracted fields
MemoryPayload(parsed) ==
  [summary |-> IF parsed.summary # <<>> /\ parsed.summary # <<Sentinel>>
               THEN parsed.summary ELSE <<>>,
   goals |-> parsed.goals,
   tone |-> parsed.tone]

PayloadEmpty(pl) == pl.summary = <<>> /\ pl.goals = <<>> /\ pl.tone = <<>>

\* aiMemoryService.upsert: the given fields replace the stored ones
Upsert(p, pl) ==
  IF p = NoProfile THEN pl
  ELSE [summary |-> IF pl.summary # <<>> THEN pl.summary ELSE p.summary,
        goals |-> IF pl.goals # <<>> THEN pl.goals ELSE p.goals,
        tone |-> IF pl.tone # <<>> THEN pl.tone ELSE p.tone]

\* a confidence check that lets every result through
LowConfidence_Never(parsed) == FALSE

\* the confidence check of tryHandleOnboardingReply: a low result is not saved
LowConfidence(parsed) == parsed.confidence = "low"

\* tryHandleOnboardingReply(userId, message); upsertOk says whether the
\* store accepts the write
tryHandleOnboardingReply(p, message, upsertOk) ==
  LET skip == [saved |-> FALSE, profile |-> p, gateChecked |-> FALSE, gate |-> FALSE,
               parsed |-> FALSE, confidence |-> "none", upserts |-> 0]
  IN  IF facts[message].trimLen < MinParseLen THEN skip
      ELSE IF ~facts[message].gate THEN [skip EXCEPT !.gateChecked = TRUE]
      ELSE LET parsed == facts[message].parsed
               seen == [skip EXCEPT !.gateChecked = TRUE, !.gate = TRUE, !.parsed = TRUE,
                                    !.confidence = parsed.confidence]
           IN  IF LowConfidence(parsed) THEN seen
               ELSE IF PayloadEmpty(MemoryPayload(parsed)) THEN seen
               ELSE IF upsertOk
                    THEN [seen EXCEPT !.saved = TRUE, !.upserts = 1,
                                      !.profile = Upsert(p, MemoryPayload(parsed))]
                    ELSE [seen EXCEPT !.upserts = 1]

LLMFail == [ok |-> FALSE]
\* what model.invoke can do: fail, or answer with a text and token usage
LLMOutcomes ==
  { LLMFail,
    [ok |-> TRUE, text |-> "", usage |-> FALSE, prompt_tokens |-> 0, completion_tokens |-> 0],
    [ok |-> TRUE, text |-> "r1", usage |-> TRUE, prompt_tokens |-> 2, completion_tokens |-> 1] }

\* a main flow that answers a failed model call with a text of its own
MainFlow_Fallback(b, llm, key, t) ==
  IF ~llm.ok
  THEN [b EXCEPT !.kind = "llm", !.text = "fallback", !.llmCalled = TRUE]
  ELSE [b EXCEPT !.kind = "llm", !.text = llm.text, !.llmCalled = TRUE,
                 !.cacheWrites = 1,
                 !.cache = setCachedResponse(b.cache, key, llm.text, t),
                 !.tokenUsage = IF llm.usage
                     THEN trackTokenUsage(b.tokenUsage, llm.prompt_tokens, llm.completion_tokens)
                     ELSE b.tokenUsage]

\* a main flow that writes the cache entry before the model has answered
MainFlow_CacheFirst(b, llm, key, t) ==
  IF ~llm.ok
  THEN [b EXCEPT !.threw = TRUE, !.llmCalled = TRUE, !.cacheWrites = 1,
                 !.cache = setCachedResponse(b.cache, key, "", t)]
  ELSE [b EXCEPT !.kind = "llm", !.text = llm.text, !.llmCalled = TRUE,
                 !.cacheWrites = 1,
                 !.cache = setCachedResponse(b.cache, key, llm.text, t),
                 !.tokenUsage = IF llm.usage
                     THEN trackTokenUsage(b.tokenUsage, llm.prompt_tokens, llm.completion_tokens)
                     ELSE b.tokenUsage]

\* the main flow of generateChatResponse from model.invoke on: a failed
\* call throws, an answer is cached and its token usage is tracked
MainFlow(b, llm, key, t) ==
  IF ~llm.ok
  THEN [b EXCEPT !.threw = TRUE, !.llmCalled = TRUE]
  ELSE [b EXCEPT !.kind = "llm", !.text = llm.text, !.llmCalled = TRUE,
                 !.cacheWrites = 1,
                 !.cache = setCachedResponse(b.cache, key, llm.text, t),
                 !.tokenUsage = IF llm.usage
                     THEN trackTokenUsage(b.tokenUsage, llm.prompt_tokens, llm.completion_tokens)
                     ELSE b.tokenUsage]

\* generateChatResponse(userId, userMessage) run on store contents p (profile)
\* and n stored messages, cache c, counters tu at time t
generateChatResponse(u, message, p, n, c, tu, t, llm, upsertOk) ==
  LET key == <<u>> \o <<":">> \o facts[message].hash
      cached == getCachedResponse(c, key, t)
      c1 == CacheAfterGet(c, key, t)
      history == getConversationHistory(n)
      base == [threw |-> FALSE, kind |-> "error", text |-> "", profile |-> p, cache |-> c1,
               tokenUsage |-> tu, cacheLookups |-> 1, cacheHit |-> FALSE,
               llmCalled |-> FALSE,
               cacheWrites |-> 0, gateChecked |-> FALSE, gate |-> FALSE,
               parsed |-> FALSE, confidence |-> "none", upserts |-> 0]
  IN  \* if (cachedResponse): null and the empty string are falsy
      IF cached # Absent /\ cached.value # ""
      THEN [base EXCEPT !.kind = "cached", !.text = cached.value, !.cacheHit = TRUE]
      ELSE IF ~HasContext(p) /\ history = 0
      THEN [base EXCEPT !.kind = "onboarding", !.text = "onboardingPrompt"]
      ELSE LET h == tryHandleOnboardingReply(p, message, upsertOk)
               b2 == [base EXCEPT !.profile = h.profile, !.gateChecked = h.gateChecked,
                                  !.gate = h.gate, !.parsed = h.parsed,
                                  !.confidence = h.confidence, !.upserts = h.upserts]
           IN  IF h.saved
               THEN [b2 EXCEPT !.kind = "ack", !.text = "acknowledgement"]
               ELSE IF facts[message].keywords /\ ~HasContext(p)
               THEN [b2 EXCEPT !.kind = "clarify", !.text = "clarificationPrompt"]
               ELSE MainFlow(b2, llm, key, t)

(***************************************************************************)
(* routes/chat.js: parseNaturalLanguageTime                                *)
(***************************************************************************)
\* the tokens whose lower-case text includes the word w (String.includes)
Including(w) ==
  CASE w = "noon" -> {"noon", "afternoon"}
    [] w = "night" -> {"night", "tonight"}
    [] w = "today" -> {"today"}
    [] OTHER -> {w}

\* lowerText.includes(w)
Mentions(s, w) == HasTok(s, Including(w))

\* timeMatches in the order of the source
TimeWords == <<"morning", "noon", "afternoon", "evening", "night">>

Clock(h, m) == [hh |-> h, mm |-> m]

TimeOfWord(w) ==
  CASE w = "morning" -> Clock(9, 0)
    [] w = "noon" -> Clock(12, 0)
    [] w = "afternoon" -> Clock(14, 0)
    [] w = "evening" -> Clock(18, 0)
    [] OTHER -> Clock(20, 0)

DefaultTime == Clock(10, 0)

\* the tokens that start with a digit
ClockTokens ==
  {"7pm", "15", "3x", "3pm", "3", "12am", "12pm", "12", "15:30", "30", "99", "99pm",
   "10:75"}

\* what /(\d{1,2}):?(\d{2})?\s*(am|pm)?/i captures inside such a token:
\* the hours, the minutes (0 when the group did not match), the period, and
\* whether the digits end the token, so that \s*(am|pm)? can go on to the
\* next word
ClockParts(t) ==
  CASE t = "7pm" -> [hours |-> 7, minutes |-> 0, period |-> "pm", open |-> FALSE]
    [] t = "3pm" -> [hours |-> 3, minutes |-> 0, period |-> "pm", open |-> FALSE]
    [] t = "12am" -> [hours |-> 12, minutes |-> 0, period |-> "am", open |-> FALSE]
    [] t = "12pm" -> [hours |-> 12, minutes |-> 0, period |-> "pm", open |-> FALSE]
    [] t = "99pm" -> [hours |-> 99, minutes |-> 0, period |-> "pm", open |-> FALSE]
    [] t = "3x" -> [hours |-> 3, minutes |-> 0, period |-> "", open |-> FALSE]
    [] t = "3" -> [hours |-> 3, minutes |-> 0, period |-> "", open |-> TRUE]
    [] t = "12" -> [hours |-> 12, minutes |-> 0, period |-> "", open |-> TRUE]
    [] t = "15" -> [hours |-> 15, minutes |-> 0, period |-> "", open |-> TRUE]
    [] t = "30" -> [hours |-> 30, minutes |-> 0, period |-> "", open |-> TRUE]
    [] t = "99" -> [hours |-> 99, minutes |-> 0, period |-> "", open |-> TRUE]
    [] t = "15:30" -> [hours |-> 15, minutes |-> 30, period |-> "", open |-> TRUE]
    [] OTHER -> [hours |-> 10, minutes |-> 75, period |-> "", open |-> TRUE]

\* hours and minutes of the explicit time matched at position i of the text
ClockOf(s, i) ==
  LET c == ClockParts(s[i])
      p == IF c.open /\ i < Len(s) /\ Lower(s[i + 1]) \in {"am", "pm"}
           THEN Lower(s[i + 1]) ELSE c.period
  IN  Clock(IF p = "pm" /\ c.hours # 12 THEN c.hours + 12
            ELSE IF p = "am" /\ c.hours = 12 THEN 0 ELSE c.hours,
            c.minutes)

\* the time of parseNaturalLanguageTime(text)
TimeOfText(s) ==
  LET words == {k \in 1..Len(TimeWords) : Mentions(s, TimeWords[k])}
      clocks == {i \in 1..Len(s) : s[i] \in ClockTokens}
  IN  IF clocks # {} THEN ClockOf(s, Min(clocks))
      ELSE IF words # {} THEN TimeOfWord(TimeWords[Min(words)])
      ELSE DefaultTime

\* days of parseNaturalLanguageTime: index 1 is monday
WeekDays == <<"monday", "tuesday", "wednesday", "thursday", "friday", "saturday", "sunday">>

\* the first day of WeekDays that the text mentions, 0 when it mentions none
FirstDay(s) ==
  LET ds == {k \in 1..Len(WeekDays) : Mentions(s, WeekDays[k])}
  IN  IF ds = {} THEN 0 ELSE Min(ds)

\* number of days from now to the date of parseNaturalLanguageTime(text);
\* getDay is date.getDay() of now, 0 for Sunday
DaysAhead(s, getDay) ==
  IF Mentions(s, "tomorrow") THEN 1
  ELSE IF Mentions(s, "today") THEN 0
  ELSE IF FirstDay(s) = 0 THEN 0
  ELSE LET targetDay == FirstDay(s) - 1
           d == targetDay - getDay
       IN  IF Mentions(s, "next")
           THEN (IF d <= 0 THEN d + 7 ELSE d)
           ELSE (IF d < 0 THEN d + 7 ELSE IF d = 0 THEN 7 ELSE d)

\* parseNaturalLanguageTime(text) for a string text
parseNaturalLanguageTime(s, getDay) == [date |-> DaysAhead(s, getDay), time |-> TimeOfText(s)]

(***************************************************************************)
(* routes/chat.js: generateAISuggestion                                    *)
(***************************************************************************)


\* two tokens in a row with a blank between them
Pair(s, A, B) == \E i \in 1..(Len(s) - 1) : s[i] \in A /\ s[i + 1] \in B

\* hasRedFlagPattern of the post-processing step, on msgLower
HasRedFlagPattern(s) ==
  LET days == {WeekDays[k] : k \in 1..Len(WeekDays)}
  IN  \/ Pair(s, {"every"}, days)
      \/ Pair(s, {"on", "marathon"}, days)  \* /on\s+(monday|...)/
      \/ Pair(s, days, {"morning", "afternoon", "evening"})
      \/ Pair(s, {"every"}, {"other"})
      \/ \E i \in 1..(Len(s) - 2) : s[i] \in {"3x"} /\ s[i + 1] = "a" /\ s[i + 2] = "week"
      \/ Pair(s, {"twice"}, {"a"})
      \/ \E i \in 1..Len(s) : s[i] \in {"weekly", "biweekly"}

\* dayMap[WeekDays[k]]
DayNumber(k) == k % 7

RECURSIVE DaysFrom(_, _)
\* recurringDays of the override: the numbers of the days that msgLower
\* includes, in the order of dayMap
DaysFrom(s, k) ==
  IF k > Len(WeekDays) THEN <<>>
  ELSE (IF Mentions(s, WeekDays[k]) THEN <<DayNumber(k)>> ELSE <<>>) \o DaysFrom(s, k + 1)

\* timeStr of the override
OverrideTime(s) ==
  IF Mentions(s, "morning") THEN Clock(9, 0)
  ELSE IF Mentions(s, "afternoon") THEN Clock(14, 0)
  ELSE IF Mentions(s, "evening") THEN Clock(18, 0)
  ELSE IF Mentions(s, "night") THEN Clock(20, 0)
  ELSE DefaultTime

\* the suggestion after the assignments of the override
Override(sug, s) ==
  [sug EXCEPT !.type = "event",
              !.recurring = "weekly",
              !.recurringDays = IF DaysFrom(s, 1) # <<>> THEN Given(DaysFrom(s, 1)) ELSE @,
              !.eventTime = Given(OverrideTime(s)),
              !.reasoning = "override"]

NoSuggestion == [null |-> TRUE]
Threw == [threw |-> TRUE]

\* a catch that lets the error out
OnParseError_Rethrow == Threw

\* what the catch around JSON.parse and the post-processing returns
OnParseError == NoSuggestion

\* responseObj built from the suggestion
ResponseOf(sug, message, getDay) ==
  LET base == [type |-> "", goalType |-> "", text |-> <<>>, eventDate |-> Absent,
               eventTime |-> Absent, recurring |-> "", recurringDays |-> Absent,
               reasoning |-> sug.reasoning]
      shown == IF sug.text = Absent THEN <<"undefined">> ELSE sug.text.value
  IN  IF sug.type = "daily_goal"
      THEN [base EXCEPT !.type = "goal", !.goalType = "daily", !.text = shown \o <<"?">>]
      ELSE IF sug.type = "longterm_goal"
      THEN [base EXCEPT !.type = "goal", !.goalType = "longterm", !.text = shown \o <<"?">>]
      ELSE IF sug.type = "event"
      THEN \* parseNaturalLanguageTime(suggestion.text) throws when text is no string
           IF sug.text = Absent THEN OnParseError
           ELSE LET parsedFromUser == parseNaturalLanguageTime(message, getDay)
                    parsedFromSuggestion == parseNaturalLanguageTime(LowerSeq(sug.text.value), getDay)
                IN  [base EXCEPT !.type = "event",
                                 !.text = IF sug.recurring # ""
                                          THEN shown \o <<"(", sug.recurring, ")", "?">>
                                          ELSE shown \o <<"?">>,
                                 !.eventDate = Given(parsedFromUser.date),
                                 !.eventTime = Given(parsedFromSuggestion.time),
                                 !.recurring = sug.recurring,
                                 !.recurringDays = sug.recurringDays]
      ELSE base

\* userMessages[userMessages.length - 1]?.content || ''
MostRecentUserMessage(recentMessages) ==
  LET us == {i \in 1..Len(recentMessages) : recentMessages[i].role = "user"}
  IN  IF us = {} THEN <<>>
      ELSE recentMessages[CHOOSE i \in us : \A j \in us : j <= i].content

\* generateAISuggestion(userId, recentMessages) when llm.invoke does what
\* response says
generateAISuggestion(recentMessages, response, getDay) ==
  LET msgLower == LowerSeq(MostRecentUserMessage(recentMessages))
  IN  IF response.kind \in {"throws", "nojson"} THEN NoSuggestion
      ELSE IF response.kind = "badjson" THEN OnParseError
      ELSE LET parsed == [type |-> response.type, text |-> response.text,
                              recurring |-> response.recurring,
                              recurringDays |-> response.recurringDays,
                              eventTime |-> response.eventTime, reasoning |-> "model"]
               hasRedFlagPattern == HasRedFlagPattern(msgLower)
               s1 == IF hasRedFlagPattern THEN Override(parsed, msgLower) ELSE parsed
           IN  IF s1.type = "null" THEN NoSuggestion
               ELSE LET s2 == IF hasRedFlagPattern /\ s1.type = "daily_goal"
                              THEN Override(s1, msgLower) ELSE s1
                    IN  ResponseOf(s2, msgLower, getDay)

\* what llm.invoke can do for the suggestion prompt: fail, answer without a
\* JSON object, answer with braces that JSON.parse rejects, or answer with
\* an object
NoReply == [kind |-> "none"]
LLMReplies ==
  {[kind |-> "throws"], [kind |-> "nojson"], [kind |-> "badjson"]} \cup
  [kind : {"object"},
   type : {"null", "daily_goal", "longterm_goal", "event", "reminder"},
   text : {Absent, Given(<<"hike">>), Given(<<"hike", "at", "7pm">>),
           Given(<<"stretch", "in", "the", "evening">>)},
   recurring : {"", "daily"},
   recurringDays : {Absent, Given(<<>>), Given(<<1>>)},
   eventTime : {Absent, Given(Clock(7, 0))}]

HikeMsg == <<"I", "want", "to", "hike", "every", "Saturday", "morning">>

\* contents of the most recent user message
SuggestionMessages ==
  {HikeMsg,
   <<"gym", "twice", "a", "week">>,
   <<"run", "on", "monday", "and", "wednesday", "evening">>,
   <<"I", "want", "to", "read", "more">>,
   <<"sunday", "is", "free">>,
   <<"yoga", "weekly", "at", "night">>,
   <<"swim", "every", "other", "day">>,
   <<"lift", "3x", "a", "week">>}

UserTurn(m) == [role |-> "user", content |-> m]
AssistantTurn == [role |-> "assistant", content |-> <<"ok">>]

\* results of getConversationHistory(userId, 2)
Histories ==
  {<<>>, <<AssistantTurn>>}
    \cup {<<UserTurn(m)>> : m \in SuggestionMessages}
    \cup {<<UserTurn(m), AssistantTurn>> : m \in SuggestionMessages}

(***************************************************************************)
(* Bounds and inputs of the chat service                                   *)
(***************************************************************************)
MaxTurns == 4
MaxCalls == 2
MaxEntries == 1
MaxNow == 25
MaxAdds == 1
MaxTasks == 2

\* body sent to POST /api/ai-memory/:userId
ManualProfile == [summary |-> <<"Sarah">>, goals |-> << <<"run">> >>, tone |-> <<"firm">>]

(***************************************************************************)
(* Route handlers                                                          *)
(***************************************************************************)
\* POST /api/chat
PostChat(u, message, llm, upsertOk) ==
  LET isOnboardingFetch == facts[message].trimLen = 0
      ts1 == IF isOnboardingFetch THEN turns[u] ELSE turns[u] + 1
      g == generateChatResponse(u, message, profile[u], ts1, cache, tokenUsage, now,
                                llm, upsertOk)
  IN  /\ ts1 < MaxTurns
      /\ g.llmCalled => llmCalls < MaxCalls
      /\ Cardinality(DOMAIN g.cache) <= MaxEntries
      \* an outcome that the turn does not consume is not enumerated
      /\ g.upserts = 0 => upsertOk
      /\ ~g.llmCalled => llm = LLMFail
      /\ profile' = [profile EXCEPT ![u] = g.profile]
      /\ cache' = g.cache
      /\ tokenUsage' = g.tokenUsage
      /\ llmCalls' = llmCalls + (IF g.llmCalled THEN 1 ELSE 0)
      /\ turns' = [turns EXCEPT ![u] = IF g.threw THEN ts1 ELSE ts1 + 1]
      /\ last' = [status |-> IF g.threw THEN 500 ELSE 200,
                  message |-> message,
                  firstMessage |-> turns[u] = 0,
                  hadProfile |-> HasContext(profile[u]),
                  firstTurn |-> getConversationHistory(ts1) = 0,
                  kind |-> g.kind,
                  cacheLookups |-> g.cacheLookups,
                  cacheHit |-> g.cacheHit, llmCalled |-> g.llmCalled,
                  llmFailed |-> g.llmCalled /\ ~llm.ok,
                  cacheWrites |-> g.cacheWrites,
                  gateChecked |-> g.gateChecked, gate |-> g.gate, parsed |-> g.parsed,
                  confidence |-> g.confidence,
                  upserts |-> g.upserts, wrote |-> g.upserts = 1 /\ upsertOk,
                  profileChanged |-> g.profile # profile[u],
                  stored |-> (IF g.threw THEN ts1 ELSE ts1 + 1) - turns[u]]
      /\ UNCHANGED <<now, facts, parseVars, sugVars, auxVars>>

\* POST /api/messages
PostMessage(u) ==
  /\ turns[u] < MaxTurns
  /\ turns' = [turns EXCEPT ![u] = @ + 1]
  /\ last' = NoTurn
  /\ UNCHANGED <<profile, cache, now, tokenUsage, llmCalls, facts, parseVars, sugVars, auxVars>>

\* DELETE /api/messages/:id
DeleteMessage(u) ==
  /\ turns[u] > 0
  /\ turns' = [turns EXCEPT ![u] = @ - 1]
  /\ last' = NoTurn
  /\ UNCHANGED <<profile, cache, now, tokenUsage, llmCalls, facts, parseVars, sugVars, auxVars>>

\* POST /api/ai-memory/:userId
PostMemory(u) ==
  /\ profile' = [profile EXCEPT ![u] = Upsert(@, ManualProfile)]
  /\ last' = NoTurn
  /\ UNCHANGED <<turns, cache, now, tokenUsage, llmCalls, facts, parseVars, sugVars, auxVars>>

\* DELETE /api/ai-memory/:userId
DeleteMemory(u) ==
  /\ profile[u] # NoProfile
  /\ profile' = [profile EXCEPT ![u] = NoProfile]
  /\ last' = NoTurn
  /\ UNCHANGED <<turns, cache, now, tokenUsage, llmCalls, facts, parseVars, sugVars, auxVars>>

\* time passes: one cache lifetime
Tick ==
  /\ now + CACHE_DURATION <= MaxNow
  /\ now' = now + CACHE_DURATION
  /\ last' = NoTurn
  /\ UNCHANGED <<profile, turns, cache, tokenUsage, llmCalls, facts, parseVars, sugVars, auxVars>>

Init ==
  /\ text = <<>> /\ result = NoResult /\ prev = NoResult /\ adds = 0
  /\ profile = [u \in Users |-> NoProfile]
  /\ turns = [u \in Users |-> 0]
  /\ cache = <<>>
  /\ now = 0
  /\ tokenUsage = [totalInputTokens |-> 0, totalOutputTokens |-> 0]
  /\ llmCalls = 0
  /\ last = NoTurn
  /\ facts = [m \in ChatMessages |-> FactsOf(m)]
  /\ recent = <<>> /\ weekday = 0
  /\ llmReply = NoReply /\ suggestion = NoSuggestion /\ sugStatus = 0
  /\ lookup = NoLookup /\ tasks = <<>> /\ timeResult = NoTime

Next ==
  \/ \E u \in Users, m \in ChatMessages, llm \in LLMOutcomes, ok \in BOOLEAN :
       PostChat(u, m, llm, ok)
  \/ \E u \in Users : PostMessage(u)
  \/ \E u \in Users : DeleteMessage(u)
  \/ \E u \in Users : PostMemory(u)
  \/ \E u \in Users : DeleteMemory(u)
  \/ Tick

Spec == Init /\ [][Next]_vars

(***************************************************************************)
(* The parser applied to texts, and to texts with a field added            *)
(***************************************************************************)
ResultHasName(r) == r.summary # <<>> /\ r.summary # <<Sentinel>>
ResultHasGoals(r) == r.goals # <<>>
ResultHasTone(r) == r.tone # <<>>

\* parseOnboardingReply(text)
Parse ==
  /\ result = NoResult
  /\ result' = parseOnboardingReply(text)
  /\ UNCHANGED <<text, prev, adds, facts, chatVars, sugVars, auxVars>>

\* the text gets the snippet added after it (before it when front is TRUE)
AddSnippet(snippet, front) ==
  /\ result # NoResult
  /\ adds < MaxAdds
  /\ text' = IF front THEN snippet \o text ELSE text \o snippet
  /\ prev' = result
  /\ result' = NoResult
  /\ adds' = adds + 1
  /\ UNCHANGED <<facts, chatVars, sugVars, auxVars>>

\* a tone is added to a text whose result has none
AddTone == result # NoResult /\ ~ResultHasTone(result) /\ 
  \E sn \in {<<NL, "Tone:", "firm">>, <<"Tone:", "firm">>} : AddSnippet(sn, FALSE)

\* goals are added to a text whose result has none
AddGoals == result # NoResult /\ ~ResultHasGoals(result) /\ AddSnippet(<<"Goals:", "Get", "fit">>, FALSE)

\* a name is added to a text whose result has none
AddName == result # NoResult /\ ~ResultHasName(result) /\ 
  \E front \in BOOLEAN : AddSnippet(<<"My", "name", "is", "Alex", ".">>, front)

InitParse ==
  /\ text \in Texts /\ result = NoResult /\ prev = NoResult /\ adds = 0
  /\ profile = [u \in Users |-> NoProfile]
  /\ turns = [u \in Users |-> 0]
  /\ cache = <<>>
  /\ now = 0
  /\ tokenUsage = [totalInputTokens |-> 0, totalOutputTokens |-> 0]
  /\ llmCalls = 0
  /\ last = NoTurn
  /\ facts = <<>>
  /\ recent = <<>> /\ weekday = 0
  /\ llmReply = NoReply /\ suggestion = NoSuggestion /\ sugStatus = 0
  /\ lookup = NoLookup /\ tasks = <<>> /\ timeResult = NoTime

NextParse == Parse \/ AddTone \/ AddGoals \/ AddName

SpecParse == InitParse /\ [][NextParse]_vars

(***************************************************************************)
(* The suggestion endpoint applied to stored conversations                 *)
(***************************************************************************)
\* GET /api/chat/suggestion/:userId; storeOk says whether the conversation
\* store answers
GetSuggestion(reply, storeOk) ==
  /\ sugStatus = 0
  \* an outcome that the request does not consume is not enumerated
  /\ (~storeOk \/ recent = <<>>) => reply = [kind |-> "throws"]
  /\ IF ~storeOk
     THEN sugStatus' = 500 /\ suggestion' = NoSuggestion /\ llmReply' = NoReply
     ELSE IF recent = <<>>
     THEN sugStatus' = 200 /\ suggestion' = NoSuggestion /\ llmReply' = NoReply
     ELSE LET r == generateAISuggestion(recent, reply, weekday)
          IN  /\ llmReply' = reply
              /\ IF r = Threw
                 THEN sugStatus' = 500 /\ suggestion' = NoSuggestion
                 ELSE sugStatus' = 200 /\ suggestion' = r
  /\ UNCHANGED <<recent, weekday, facts, parseVars, chatVars, auxVars>>

InitSuggest ==
  /\ recent \in Histories /\ weekday \in 0..6
  /\ llmReply = NoReply /\ suggestion = NoSuggestion /\ sugStatus = 0
  /\ lookup = NoLookup /\ tasks = <<>> /\ timeResult = NoTime
  /\ text = <<>> /\ result = NoResult /\ prev = NoResult /\ adds = 0
  /\ profile = [u \in Users |-> NoProfile]
  /\ turns = [u \in Users |-> 0]
  /\ cache = <<>>
  /\ now = 0
  /\ tokenUsage = [totalInputTokens |-> 0, totalOutputTokens |-> 0]
  /\ llmCalls = 0
  /\ last = NoTurn
  /\ facts = <<>>

NextSuggest == \E reply \in LLMReplies, ok \in BOOLEAN : GetSuggestion(reply, ok)

SpecSuggest == InitSuggest /\ [][NextSuggest]_vars

(***************************************************************************)
(* Properties of the intake gate (specification Spec)                      *)
(***************************************************************************)
Range(f) == {f[i] : i \in DOMAIN f}

\* C1: a turn of a user with no profile and no stored messages returns the
\* onboarding prompt, calls no model, writes no profile and caches nothing
C1_NeedsOnboarding ==
  (last # NoTurn /\ ~last.hadProfile /\ last.firstTurn) =>
    /\ last.kind = "onboarding"
    /\ ~last.llmCalled
    /\ ~last.wrote
    /\ last.cacheWrites = 0

\* C2: the first non-empty message that a user without profile posts is
\* answered with the onboarding prompt and without calling the model
C2_FirstMessageOnboarding ==
  (last # NoTurn /\ ~last.hadProfile /\ last.firstMessage /\ last.message # <<>>) =>
    /\ last.kind = "onboarding"
    /\ ~last.llmCalled

\* C3: with no profile and at least one stored message, a turn whose gate
\* check matched and whose extraction was low returns the clarification
\* prompt, calls no model and writes no profile
C3_ClarificationGate ==
  (last # NoTurn /\ ~last.hadProfile /\ ~last.firstTurn
     /\ last.gate /\ last.confidence = "low") =>
    /\ last.kind = "clarify"
    /\ ~last.llmCalled
    /\ ~last.wrote

\* C4: the clarification prompt is returned only by a turn in which the
\* extractor ran and returned low while the user had no profile
C4_ClarifyOnlyAfterLow ==
  (last # NoTurn /\ last.kind = "clarify") =>
    /\ last.parsed
    /\ last.confidence = "low"
    /\ ~last.hadProfile

C6_ReadyState ==
  (last # NoTurn /\ last.hadProfile) =>
    /\ last.kind \in {"llm", "cached", "error"}
    /\ ~last.profileChanged

\* outcome class of a turn and the four values it is said to depend on
TurnClass(l) == IF l.kind \in {"llm", "cached", "error"} THEN "normal" ELSE l.kind
GateInputs(l) ==
  <<l.hadProfile, l.firstTurn, facts[l.message].gate, facts[l.message].parsed.confidence>>

\* C7: two turns that agree on (profile exists, no stored message, gate
\* check, extraction confidence) have the same outcome class
C7_NoHiddenMemory ==
  [][(last # NoTurn /\ last' # NoTurn /\ GateInputs(last) = GateInputs(last'))
       => TurnClass(last) = TurnClass(last')]_vars

ConfidenceRank(c) == IF c = "high" THEN 2 ELSE IF c = "medium" THEN 1 ELSE 0

\* C9: adding text that supplies a missing field never lowers the
\* confidence and never loses a field that was extracted before
C9_Monotone ==
  (prev # NoResult /\ result # NoResult) =>
    /\ ConfidenceRank(result.confidence) >= ConfidenceRank(prev.confidence)
    /\ ResultHasName(prev) => ResultHasName(result)
    /\ ResultHasGoals(prev) => ResultHasGoals(result)
    /\ ResultHasTone(prev) => ResultHasTone(result)

\* C10: on a text of at least 20 characters the summary is the name after
\* "my name is", else the name after a leading "I am"/"I'm" when a goal or
\* tone marker is present, else the sentinel with a name warning; it is
\* never empty and a missing name always leaves the warning
C10_NameRule ==
  (result # NoResult /\ TrimLen(text) >= MinParseLen) =>
    /\ NameMatches(text) # {} =>
         result.summary = CaptureName(text, Min(NameMatches(text)) + 3)
    /\ (NameMatches(text) = {} /\ IAmEnd(text) # 0 /\ WordAt(text, IAmEnd(text))
          /\ HasGoalOrToneMarker(text)) =>
         result.summary = CaptureName(text, IAmEnd(text))
    /\ (NameMatches(text) = {} /\ ~(IAmEnd(text) # 0 /\ WordAt(text, IAmEnd(text))
          /\ HasGoalOrToneMarker(text))) =>
         (result.summary = <<Sentinel>> /\ NameWarning \in Range(result.warnings))
    /\ result.summary # <<>>
    /\ ~ResultHasName(result) => NameWarning \in Range(result.warnings)

\* the first MaxGoals entries of a list
CapGoals(gs) == IF Len(gs) > MaxGoals THEN SubSeq(gs, 1, MaxGoals) ELSE gs

\* C11: the goals are the first 10 entries of the candidate list after its
\* case-insensitive duplicates were removed, and the truncation warning is
\* recorded exactly when more than 10 distinct goals were found
C11_DedupThenCap ==
  (result # NoResult /\ TrimLen(text) >= MinParseLen) =>
    LET distinct == UniqueGoals(CandidateGoals(text), {})
    IN  /\ result.goals = CapGoals(distinct)
        /\ TooManyWarning \in Range(result.warnings) <=> Len(distinct) > MaxGoals

\* C12: "Goals: fitness, Fitness, GET FIT" gives exactly one goal
C12_DedupExample ==
  (result # NoResult /\ text = DedupExample) => Len(result.goals) = 1

\* a "Goals:" field with a value that has no semicolon and no comma
PlainGoalsField(s) ==
  /\ GoalsText(s) # <<>>
  /\ \A i \in 1..Len(GoalsText(s)) : GoalsText(s)[i] \notin {";", ","}

C14_Scenario ==
  (result # NoResult /\ text = ScenarioExample) =>
    /\ result.summary = <<"Alex">>
    /\ result.goals = << <<"Get", "fit">>, <<"learn", "Python">>, <<"improve", "focus">> >>
    /\ HasTok(result.tone, {"supportive", "energizing"})
    /\ result.confidence = "high"

(***************************************************************************)
(* Properties of generateAISuggestion (specification SpecSuggest)          *)
(***************************************************************************)
\* the most recent user message of the request, in lower case
AskedText == LowerSeq(MostRecentUserMessage(recent))

\* the request reached the post-processing step with a parsed JSON object
\* and a user message that matches a red-flag pattern
OverrideCase ==
  /\ sugStatus # 0
  /\ llmReply.kind = "object"
  /\ HasRedFlagPattern(AskedText)

\* C15: when the most recent user message matches a red-flag pattern and the
\* reply of the model holds a JSON object, the returned suggestion is not
\* null and has type event and recurring weekly, whatever type the model
\* proposed
C15_OverrideForcesEvent ==
  OverrideCase =>
    /\ sugStatus = 200
    /\ suggestion # NoSuggestion
    /\ suggestion.type = "event"
    /\ suggestion.recurring = "weekly"

\* numbers (Sunday 0 ... Saturday 6) of the weekday names that occur in s
DaySet(s) == {k % 7 : k \in {d \in 1..7 : Mentions(s, WeekDays[d])}}

\* recurringDays of a returned suggestion as a set
DaysReturned(sug) ==
  IF sug.recurringDays = Absent THEN {} ELSE Range(sug.recurringDays.value)

\* the replies that differ from r in recurringDays at most
SameButDays(r) ==
  {q \in LLMReplies : q.kind = "object" /\ [q EXCEPT !.recurringDays = Absent]
                                           = [r EXCEPT !.recurringDays = Absent]}

\* C16: when the override fires, recurringDays of the returned suggestion is
\* the set of the weekdays named in the user message, and a reply of the
\* model that differs in recurringDays only gives the same recurringDays
C16_DaysFromTextAlone ==
  (OverrideCase /\ suggestion # NoSuggestion) =>
    /\ DaysReturned(suggestion) = DaySet(AskedText)
    /\ \A q \in SameButDays(llmReply) :
         LET other == generateAISuggestion(recent, q, weekday)
         IN  other # NoSuggestion /\ DaysReturned(other) = DaysReturned(suggestion)

\* the time-of-day words of the override and the time each stands for
DayTimeWords == {"morning", "afternoon", "evening", "night"}
DayTime(s) ==
  IF Mentions(s, "morning") THEN Clock(9, 0)
  ELSE IF Mentions(s, "afternoon") THEN Clock(14, 0)
  ELSE IF Mentions(s, "evening") THEN Clock(18, 0)
  ELSE Clock(20, 0)

\* C17: when the override fires, eventTime of the returned suggestion is
\* the time of day of the user message, whatever the model returned; "I
\* want to hike every Saturday morning" with a daily_goal proposal gives an
\* event, weekly, on day 6 at 09:00
C17_OverrideEventTime ==
  /\ (OverrideCase /\ suggestion # NoSuggestion
        /\ \E w \in DayTimeWords : Mentions(AskedText, w)) =>
       suggestion.eventTime = Given(DayTime(AskedText))
  /\ (OverrideCase /\ AskedText = LowerSeq(HikeMsg) /\ llmReply.type = "daily_goal") =>
       /\ suggestion # NoSuggestion
       /\ suggestion.type = "event"
       /\ suggestion.recurring = "weekly"
       /\ DaysReturned(suggestion) = {6}
       /\ suggestion.eventTime = Given(Clock(9, 0))

\* C18: a reply without JSON object, or with JSON text that does not parse,
\* makes generateAISuggestion return null without throwing, and the
\* endpoint answers 200 with suggestion null
C18_MalformedIsNoSuggestion ==
  (sugStatus # 0 /\ llmReply.kind \in {"nojson", "badjson"}) =>
    (sugStatus = 200 /\ suggestion = NoSuggestion)

C18_Witness ==
  /\ llmReply.kind = "badjson"
  /\ sugStatus = 200
  /\ suggestion = NoSuggestion
  /\ HasRedFlagPattern(AskedText)

(***************************************************************************)
(* Properties of the response cache (specification Spec)                   *)
(***************************************************************************)
\* C19: when two turns of the user with the same message follow each other
\* and the model answered the first, the second is answered from the cache
\* without another call of the model, whatever the answer was
C19_CacheShortCircuit ==
  [][(last # NoTurn /\ last' # NoTurn
        /\ last.kind = "llm" /\ last'.message = last.message)
       => (last'.kind = "cached" /\ ~last'.llmCalled)]_vars

\* texts that the service itself writes
FixedPrompts == {"onboardingPrompt", "clarificationPrompt", "acknowledgement"}

\* texts that model.invoke returned
ModelTexts == {o.text : o \in LLMOutcomes \ {LLMFail}}

\* every cache entry holds a model answer and only a turn that got one
\* wrote to the cache
CacheHoldsModelAnswers ==
  /\ \A k \in DOMAIN cache :
       cache[k].response \in ModelTexts /\ cache[k].response \notin FixedPrompts
  /\ last # NoTurn =>
       /\ last.cacheWrites = 1 <=> last.kind = "llm"
       /\ last.kind \in {"onboarding", "clarify", "ack", "error", "cached"} =>
            last.cacheWrites = 0

\* C20: setCachedResponse is called only with the answer of a successful
\* model call: no entry ever holds the onboarding prompt, the clarification
\* prompt or the acknowledgement, and a turn that did not get an answer of
\* the model adds no entry and changes none
C20_CacheOnlyModelAnswers ==
  /\ []CacheHoldsModelAnswers
  /\ [][(last' # NoTurn /\ last'.kind # "llm") =>
          \A k \in DOMAIN cache' : k \in DOMAIN cache /\ cache'[k] = cache[k]]_vars

C20_Witness ==
  /\ last # NoTurn
  /\ last.kind = "error" /\ last.llmCalled
  /\ cache # <<>>

(***************************************************************************)
(* parseNaturalLanguageTime applied to texts                               *)
(***************************************************************************)
\* texts such as "next monday at 3pm": a date word or none, a weekday or
\* none, a time or a number or none
TimeTexts ==
  {d \o w \o t :
     d \in {<<>>, <<"next">>, <<"tomorrow">>, <<"today">>},
     w \in {<<>>} \cup {<<WeekDays[k]>> : k \in 1..Len(WeekDays)},
     t \in {<<>>, <<"morning">>, <<"at", "noon">>, <<"afternoon">>, <<"evening">>,
            <<"night">>, <<"at", "3pm">>, <<"at", "3", "pm">>, <<"at", "12am">>,
            <<"at", "12pm">>, <<"at", "12", "am">>, <<"at", "15:30">>,
            <<"at", "10:75">>, <<"morning", "at", "7pm">>, <<"read", "30", "pages">>,
            <<"99">>, <<"99pm">>}}

\* parseNaturalLanguageTime(text)
ParseTime ==
  /\ timeResult = NoTime
  /\ timeResult' = parseNaturalLanguageTime(text, weekday)
  /\ UNCHANGED <<facts, parseVars, chatVars, sugVars, lookup, tasks>>

InitTime ==
  /\ text \in TimeTexts /\ weekday \in 0..6
  /\ timeResult = NoTime
  /\ result = NoResult /\ prev = NoResult /\ adds = 0
  /\ profile = [u \in Users |-> NoProfile]
  /\ turns = [u \in Users |-> 0]
  /\ cache = <<>>
  /\ now = 0
  /\ tokenUsage = [totalInputTokens |-> 0, totalOutputTokens |-> 0]
  /\ llmCalls = 0
  /\ last = NoTurn
  /\ facts = <<>>
  /\ recent = <<>>
  /\ llmReply = NoReply /\ suggestion = NoSuggestion /\ sugStatus = 0
  /\ lookup = NoLookup /\ tasks = <<>>

SpecTime == InitTime /\ [][ParseTime]_vars

(***************************************************************************)
(* C23, C24, C28: times and dates                                          *)
(***************************************************************************)
\* the time-of-day words that are words of the text
DayTimesNamed == {k \in 1..Len(TimeWords) : \E i \in 1..Len(text) : text[i] = TimeWords[k]}

ExplicitTimes == {i \in 1..Len(text) : text[i] \in ClockTokens}

KeywordTime(w) ==
  CASE w = "morning" -> Clock(9, 0)
    [] w = "noon" -> Clock(12, 0)
    [] w = "afternoon" -> Clock(14, 0)
    [] w = "evening" -> Clock(18, 0)
    [] w = "night" -> Clock(20, 0)

HasWord(w) == \E i \in 1..Len(text) : text[i] = w

\* C23: without an explicit clock time the time is 09:00 for morning, 12:00
\* for noon, 14:00 for afternoon, 18:00 for evening, 20:00 for night and
\* 10:00 without a time-of-day word; an explicit time overrides the word,
\* 12am is 00:00 and 12pm is 12:00.
C23_TimeOfDay ==
  timeResult # NoTime =>
    /\ (ExplicitTimes = {} /\ DayTimesNamed = {}) => timeResult.time = Clock(10, 0)
    /\ \A k \in 1..Len(TimeWords) :
         (ExplicitTimes = {} /\ DayTimesNamed = {k})
           => timeResult.time = KeywordTime(TimeWords[k])
    /\ HasWord("3pm") => timeResult.time = Clock(15, 0)
    /\ HasWord("7pm") => timeResult.time = Clock(19, 0)
    /\ HasWord("12am") => timeResult.time = Clock(0, 0)
    /\ HasWord("12pm") => timeResult.time = Clock(12, 0)
    /\ HasWord("15:30") => timeResult.time = Clock(15, 30)

\* the weekday named by the text, 0 when it names none
DayNamed == FirstDay(text)

\* C24: "next W" and the bare "W" give a date 1 to 7 days ahead that falls
\* on weekday W; on a Wednesday, "next monday at 3pm" gives the date 5 days
\* ahead and the time 15:00.
C24_WeekdayResolution ==
  timeResult # NoTime =>
    /\ (DayNamed # 0 /\ ~HasWord("tomorrow") /\ ~HasWord("today")) =>
         /\ timeResult.date \in 1..7
         /\ (weekday + timeResult.date) % 7 = DayNamed % 7
    /\ (weekday = 3 /\ text = <<"next", "monday", "at", "3pm">>) =>
         (timeResult.date = 5 /\ timeResult.time = Clock(15, 0))

\* C28: the time returned is a valid 24-hour HH:mm value for every text.
C28_ValidTime ==
  timeResult # NoTime =>
    (timeResult.time.hh \in 0..23 /\ timeResult.time.mm \in 0..59)

(***************************************************************************)
(* aiService.js: the response cache called directly                        *)
(***************************************************************************)
\* userId is any string: "u1", "u2" and "u1:hello", by their pieces
UserIds == {<<"u1">>, <<"u2">>, <<"u1", ":", "hello">>}

CacheMessages == {<<"Hello", "there">>, <<"there">>}

\* the response stored for a user, different for every user
AnswerFor(userId) ==
  CASE userId = <<"u1">> -> "answer for u1"
    [] userId = <<"u2">> -> "answer for u2"
    [] OTHER -> "answer for u1:hello"

\* setCachedResponse(userId, message, response)
SetCached(userId, message) ==
  LET c == setCachedResponse(cache, CacheKey(userId, message), AnswerFor(userId), now)
  IN  /\ Cardinality(DOMAIN c) <= MaxEntries + 1
      /\ cache' = c
      /\ lookup' = NoLookup
      /\ UNCHANGED <<profile, turns, now, tokenUsage, llmCalls, last, facts, parseVars,
                     sugVars, tasks, timeResult>>

\* getCachedResponse(userId, message)
GetCached(userId, message) ==
  LET key == CacheKey(userId, message)
  IN  /\ lookup' = [op |-> "get", userId |-> userId, message |-> message,
                    returned |-> getCachedResponse(cache, key, now),
                    deleted |-> key \in DOMAIN cache /\ ~CacheFresh(cache, key, now)]
      /\ cache' = CacheAfterGet(cache, key, now)
      /\ UNCHANGED <<profile, turns, now, tokenUsage, llmCalls, last, facts, parseVars,
                     sugVars, tasks, timeResult>>

\* clearExpiredCache()
ClearExpired ==
  /\ cache' = clearExpiredCache(cache, now)
  /\ lookup' = NoLookup
  /\ UNCHANGED <<profile, turns, now, tokenUsage, llmCalls, last, facts, parseVars,
                 sugVars, tasks, timeResult>>

\* time passes: up to one hour before a cache lifetime, then hour by hour
Advance ==
  LET t == IF now = 0 THEN CACHE_DURATION - 1 ELSE now + 1
  IN  /\ t <= MaxNow
      /\ now' = t
      /\ lookup' = NoLookup
      /\ UNCHANGED <<profile, turns, cache, tokenUsage, llmCalls, last, facts, parseVars,
                     sugVars, tasks, timeResult>>

NextCache ==
  \/ \E u \in UserIds, m \in CacheMessages : SetCached(u, m)
  \/ \E u \in UserIds, m \in CacheMessages : GetCached(u, m)
  \/ ClearExpired
  \/ Advance

SpecCache == Init /\ [][NextCache]_vars

(***************************************************************************)
(* C22: the lifetime of a cache entry                                      *)
(***************************************************************************)
\* C22: getCachedResponse returns the stored response if and only if an
\* entry exists for the key and is less than 24 hours old, and null
\* otherwise; an expired entry found by the lookup is removed, and a lookup
\* changes or removes no unexpired entry.
C22_CacheTTL ==
  [][lookup'.op = "get" =>
       LET key == lookup'.userId \o <<":">> \o hashMessage(lookup'.message)
           exists == key \in DOMAIN cache
           young == exists /\ now - cache[key].timestamp < CACHE_DURATION
       IN  /\ young => lookup'.returned = Given(cache[key].response)
           /\ ~young => lookup'.returned = Absent
           /\ (exists /\ ~young) => key \notin DOMAIN cache'
           /\ DOMAIN cache' \subseteq DOMAIN cache
           /\ \A k \in DOMAIN cache :
                now - cache[k].timestamp < CACHE_DURATION
                  => k \in DOMAIN cache' /\ cache'[k] = cache[k]]_vars

\* a lookup at age 24 hours found nothing and removed the entry, next to an
\* entry that stays
C22_Witness ==
  /\ lookup.op = "get" /\ lookup.returned = Absent /\ lookup.deleted
  /\ now = CACHE_DURATION
  /\ cache # <<>>

C25_ModelFailure ==
  [][(last' # NoTurn /\ last'.llmFailed) =>
       /\ last'.status = 500 /\ last'.kind = "error"
       /\ last'.cacheWrites = 0
       /\ \A k \in DOMAIN cache' : k \in DOMAIN cache /\ cache'[k] = cache[k]
       /\ tokenUsage' = tokenUsage
       /\ last'.stored = (IF facts[last'.message].trimLen = 0 THEN 0 ELSE 1)]_vars

\* the model call of a turn with a user message failed after an earlier
\* call had been counted
C25_Witness ==
  /\ last # NoTurn /\ last.llmFailed /\ last.stored = 1
  /\ tokenUsage.totalInputTokens > 0

(***************************************************************************)
(* C29: the result type of generateAISuggestion                            *)
(***************************************************************************)
\* C29: every value returned other than null has type goal or event; a goal
\* has goalType daily or longterm and no event fields, an event has both
\* eventDate and eventTime; a model type outside daily_goal, longterm_goal
\* and event never gives a result object without a type.
C29_ClosedResultType ==
  (sugStatus = 200 /\ suggestion # NoSuggestion) =>
    /\ suggestion.type \in {"goal", "event"}
    /\ suggestion.type = "goal" =>
         /\ suggestion.goalType \in {"daily", "longterm"}
         /\ suggestion.eventDate = Absent /\ suggestion.eventTime = Absent
         /\ suggestion.recurring = "" /\ suggestion.recurringDays = Absent
    /\ suggestion.type = "event" =>
         (suggestion.eventDate # Absent /\ suggestion.eventTime # Absent)

(***************************************************************************)
(* routes/chat.js: chat turns running concurrently                         *)
(***************************************************************************)
\* The turns are those of one user with a stored profile and stored
\* messages, with messages that are no onboarding reply: each runs the
\* cache check and the main flow of generateChatResponse.  A turn gives up
\* control at its awaits only; the statements between two awaits run
\* without interruption.
Turns == 1..MaxTasks

\* the shared state the turns work on
World == [cache |-> cache, tokenUsage |-> tokenUsage, tasks |-> tasks, now |-> now]

\* generateChatResponse up to its first await: the cache check
BeginOf(w, i, m) ==
  LET key == CacheKey(<<"u1">>, m)
      cached == getCachedResponse(w.cache, key, w.now)
      hit == cached # Absent /\ cached.value # ""
  IN  [w EXCEPT !.cache = CacheAfterGet(w.cache, key, w.now),
                !.tasks[i] = [pc |-> IF hit THEN "done" ELSE "reading",
                              key |-> key, hit |-> hit, llmCalled |-> FALSE,
                              returned |-> IF hit THEN cached.value ELSE "",
                              inputTokens |-> 0, outputTokens |-> 0, counted |-> FALSE,
                              writeSeq |-> 0, wroteAt |-> 0, overlapped |-> FALSE]]

\* the awaited reads of the stores are over: model.invoke is called
InvokeOf(w, i) ==
  [w EXCEPT !.tasks[i].pc = "invoking", !.tasks[i].llmCalled = TRUE]

\* model.invoke settles: the rest of generateChatResponse runs
CompleteOf(w, i, llm) ==
  LET b == [threw |-> FALSE, kind |-> "error", text |-> "", cache |-> w.cache,
            tokenUsage |-> w.tokenUsage, llmCalled |-> FALSE, cacheWrites |-> 0]
      g == MainFlow(b, llm, w.tasks[i].key, w.now)
      tracked == ~g.threw /\ llm.usage
  IN  [w EXCEPT !.cache = g.cache,
                !.tokenUsage = g.tokenUsage,
                !.tasks[i] = [@ EXCEPT !.pc = IF g.threw THEN "failed" ELSE "done",
                                       !.returned = g.text,
                                       !.inputTokens = IF tracked THEN llm.prompt_tokens ELSE 0,
                                       !.outputTokens = IF tracked THEN llm.completion_tokens ELSE 0,
                                       !.counted = tracked,
                                       !.writeSeq = IF g.threw THEN 0
                                          ELSE 1 + Cardinality({j \in Turns :
                                                  /\ w.tasks[j].pc = "done"
                                                  /\ w.tasks[j].writeSeq > 0}),
                                       !.wroteAt = w.now,
                                       !.overlapped =
                                          \E j \in Turns \ {i} :
                                             w.tasks[j].pc \in {"reading", "invoking"}]]

\* resetTokenStats()
ResetOf(w) ==
  [w EXCEPT !.tokenUsage = [totalInputTokens |-> 0, totalOutputTokens |-> 0],
            !.tasks = [i \in Turns |->
                         IF w.tasks[i].pc = "done" THEN [w.tasks[i] EXCEPT !.counted = FALSE]
                         ELSE w.tasks[i]]]

\* the shared state becomes w
Becomes(w) ==
  /\ cache' = w.cache
  /\ tokenUsage' = w.tokenUsage
  /\ tasks' = w.tasks
  /\ UNCHANGED <<profile, turns, now, llmCalls, last, facts, parseVars, sugVars, lookup,
                 timeResult>>

Begin(i, m) == tasks[i].pc = "idle" /\ Becomes(BeginOf(World, i, m))

Invoke(i) == tasks[i].pc = "reading" /\ Becomes(InvokeOf(World, i))

Complete(i, llm) == tasks[i].pc = "invoking" /\ Becomes(CompleteOf(World, i, llm))

ResetTokenStats ==
  /\ tokenUsage.totalInputTokens > 0
  /\ Becomes(ResetOf(World))

InitConc ==
  /\ text = <<>> /\ result = NoResult /\ prev = NoResult /\ adds = 0
  /\ profile = [u \in Users |-> ManualProfile]
  /\ turns = [u \in Users |-> 1]
  /\ cache = <<>>
  /\ now = 0
  /\ tokenUsage = [totalInputTokens |-> 0, totalOutputTokens |-> 0]
  /\ llmCalls = 0
  /\ last = NoTurn
  /\ facts = <<>>
  /\ recent = <<>> /\ weekday = 0
  /\ llmReply = NoReply /\ suggestion = NoSuggestion /\ sugStatus = 0
  /\ lookup = NoLookup /\ timeResult = NoTime
  /\ tasks = [i \in Turns |-> [pc |-> "idle"]]

NextConc ==
  \/ \E i \in Turns, m \in {<<"Hello">>, <<"Hello", "there">>} : Begin(i, m)
  \/ \E i \in Turns : Invoke(i)
  \/ \E i \in Turns, llm \in LLMOutcomes : Complete(i, llm)
  \/ ResetTokenStats
  \/ Advance

SpecConc == InitConc /\ [][NextConc]_vars

(***************************************************************************)
(* C26: the token counters under concurrent turns                          *)
(***************************************************************************)
RECURSIVE SumOf(_, _, _)
\* the sum of field f of the turns in S whose usage counts since the reset
SumOf(w, f, S) ==
  IF S = {} THEN 0
  ELSE LET i == CHOOSE x \in S : TRUE
           v == IF w.tasks[i].pc = "done" /\ w.tasks[i].counted
                THEN (IF f = "in" THEN w.tasks[i].inputTokens ELSE w.tasks[i].outputTokens)
                ELSE 0
       IN  v + SumOf(w, f, S \ {i})

\* a counter is below the sum of the amounts reported since the last reset
LostUpdate(w) ==
  \/ w.tokenUsage.totalInputTokens < SumOf(w, "in", Turns)
  \/ w.tokenUsage.totalOutputTokens < SumOf(w, "out", Turns)

\* the next step of turn i, its model call answering with token usage
StepOf(w, i) ==
  CASE w.tasks[i].pc = "idle" -> BeginOf(w, i, <<"Hello">>)
    [] w.tasks[i].pc = "reading" -> InvokeOf(w, i)
    [] w.tasks[i].pc = "invoking" ->
         CompleteOf(w, i, [ok |-> TRUE, text |-> "r1", usage |-> TRUE,
                           prompt_tokens |-> 2, completion_tokens |-> 1])
    [] OTHER -> w

RECURSIVE Run(_, _)
\* the shared state after the turns took their steps in the order sched
Run(w, sched) == IF sched = <<>> THEN w ELSE Run(StepOf(w, Head(sched)), Tail(sched))

\* the orders in which the turns can take their three steps each
Schedules == [1..(3 * MaxTasks) -> Turns]

\* C26 as stated: there is an interleaving of two turns that each call
\* trackTokenUsage after which a counter is below the sum of the amounts
\* the turns reported.
C26_LostUpdatePossible ==
  \E sched \in Schedules : LostUpdate(Run(World, sched))

\* C26 as amended: in every interleaving of the turns at their awaits the
\* counters equal the sums of the amounts reported since the last reset; no
\* update is lost.
C26_NoLostUpdate ==
  /\ tokenUsage.totalInputTokens = SumOf(World, "in", Turns)
  /\ tokenUsage.totalOutputTokens = SumOf(World, "out", Turns)

\* two turns that overlapped have both reported their usage
C26_Witness ==
  \E i \in Turns, j \in Turns :
     /\ i # j
     /\ tasks[i].pc = "done" /\ tasks[i].counted /\ tasks[i].overlapped
     /\ tasks[j].pc = "done" /\ tasks[j].counted

(***************************************************************************)
(* C27: the cache under concurrent turns                                   *)
(***************************************************************************)
\* the turns that stored a response under key k
WritersOf(k) == {i \in Turns : tasks[i].pc = "done" /\ tasks[i].writeSeq > 0 /\ tasks[i].key = k}

LastWriter(k) == CHOOSE i \in WritersOf(k) : \A j \in WritersOf(k) : tasks[j].writeSeq <= tasks[i].writeSeq

\* C27: turns that miss the cache each invoke the model, and an entry of
\* the cache is the response and the timestamp of the turn that stored
\* under its key last; no entry mixes two turns or holds a response that no
\* completed model call returned.
C27_LastWriterWins ==
  /\ \A i \in Turns :
       (tasks[i].pc = "done" /\ ~tasks[i].hit) => (tasks[i].llmCalled /\ tasks[i].writeSeq > 0)
  /\ \A k \in DOMAIN cache :
       /\ WritersOf(k) # {}
       /\ cache[k] = [response |-> tasks[LastWriter(k)].returned,
                      timestamp |-> tasks[LastWriter(k)].wroteAt]

\* two overlapping turns with the same message both missed and stored, at
\* different times, and the entry is the later one
C27_Witness ==
  \E i \in Turns, j \in Turns :
     /\ tasks[i].pc = "done" /\ tasks[j].pc = "done"
     /\ tasks[i].key = tasks[j].key
     /\ tasks[i].writeSeq > 0 /\ tasks[j].writeSeq > tasks[i].writeSeq
     /\ ~tasks[i].hit /\ ~tasks[j].hit
     /\ tasks[i].overlapped /\ tasks[j].wroteAt > tasks[i].wroteAt
     /\ tasks[j].key \in DOMAIN cache

(***************************************************************************)
(* C21: the cache and the fixed prompts                                    *)
(***************************************************************************)
FixedKinds == {"onboarding", "clarify", "ack"}

\* the turn just taken, run on the same store contents with an empty cache
WithoutCache ==
  LET u == "u1"
      m == last'.message
      ts1 == IF facts[m].trimLen = 0 THEN turns[u] ELSE turns[u] + 1
  IN  generateChatResponse(u, m, profile[u], ts1, <<>>, tokenUsage, now, LLMFail,
                           last'.upserts = 1 => last'.wrote)

\* C21: a turn that answers with the onboarding prompt, the clarification
\* prompt or the extraction acknowledgement performs no cache lookup, and
\* a turn that leads to one of them is never answered from the cache
\* instead.
C21_NoCacheOnFixedTurns ==
  /\ [](last # NoTurn /\ last.kind \in FixedKinds => last.cacheLookups = 0)
  /\ [][(last' # NoTurn /\ WithoutCache.kind \in FixedKinds)
          => (last'.kind \in FixedKinds /\ ~last'.cacheHit)]_vars

====
